---- MODULE Spec2Model ----
(***************************************************************************)
(* pulp_docker: the DockerDistribution serializer's validation             *)
(* (app/serializers.py) and the content models with their uniqueness and   *)
(* foreign-key rules (app/models.py).                                      *)
(*                                                                         *)
(* Strings are sequences of one-character strings, so that split, join,    *)
(* startswith and format are computed character by character.              *)
(***************************************************************************)
EXTENDS Integers, Sequences, FiniteSets, TLC

VARIABLES
    distributions,  \* the DockerDistribution table: a set of rows
    response,       \* what the last serializer call answered
    blobs,                  \* the ManifestBlob table
    manifests,              \* the ImageManifest table
    manifestLists,          \* the ManifestList table
    blobManifestBlobs,      \* the BlobManifestBlob table
    manifestListManifests,  \* the ManifestListManifest table
    manifestTags,           \* the ManifestTag table
    manifestListTags,       \* the ManifestListTag table
    nextPk,                 \* the next primary key of a content unit
    result,                 \* what the last operation on the tables answered
    upstream_name,      \* DockerRemote.upstream_name
    namespaced,         \* what namespaced_upstream_name returned last
    remoteOp,           \* the last operation on the remote
    hasDownloadFactory, \* whether DockerRemote._download_factory is set
    fetch,              \* the download in progress
    tokens,             \* the token cache: whether a scope has a token
    requests        \* the distribution requests being served at once

distVars == <<distributions, response>>
contentVars == <<blobs, manifests, manifestLists, blobManifestBlobs,
                 manifestListManifests, manifestTags, manifestListTags,
                 nextPk, result>>
remoteVars == <<upstream_name, namespaced, remoteOp, hasDownloadFactory,
                fetch, tokens>>
requestVars == <<requests>>
vars == <<distVars, contentVars, remoteVars, requestVars>>

(***************************************************************************)
(* Bounds of the model.                                                    *)
(***************************************************************************)
MaxLen == 4     \* longest base path a request carries, in characters
MaxPk == 3      \* most content units ever saved
MaxTagPk == 4   \* most content units ever saved where only tags and their
                \* targets are
MaxTries == 2   \* most times the transport sends one request

(***************************************************************************)
(* Strings.                                                                *)
(***************************************************************************)
Chars == {"a", "/"}
Slash == <<"/">>

Strings(n) == UNION {[1..k -> Chars] : k \in 0..n}

StartsWith(s, p) ==
    /\ Len(p) <= Len(s)
    /\ SubSeq(s, 1, Len(p)) = p

\* str.split("/")
RECURSIVE split(_)
split(s) ==
    IF \A i \in 1..Len(s) : s[i] # "/"
    THEN <<s>>
    ELSE LET i == CHOOSE k \in 1..Len(s) :
                      s[k] = "/" /\ \A j \in 1..(k - 1) : s[j] # "/"
         IN <<SubSeq(s, 1, i - 1)>> \o split(SubSeq(s, i + 1, Len(s)))

\* "/".join((a, b))
join(a, b) == a \o Slash \o b

\* str.strip("/")
RECURSIVE strip(_)
strip(s) ==
    IF s = <<>> THEN s
    ELSE IF Head(s) = "/" THEN strip(Tail(s))
    ELSE IF s[Len(s)] = "/" THEN strip(SubSeq(s, 1, Len(s) - 1))
    ELSE s

\* non-empty segments joined by "/"
WellFormed(s) == \A i \in 1..Len(split(s)) : split(s)[i] # <<>>

\* the base paths requests carry: every well-formed path of up to MaxLen
\* characters, and strings that are not: blank, a lone slash, a leading or
\* trailing slash, an empty segment inside
Malformed ==
    {<<>>, <<"/">>, <<"/", "a">>, <<"a", "/">>, <<"a", "/", "/", "a">>}
BasePaths == {s \in Strings(MaxLen) : WellFormed(s)} \cup Malformed

(***************************************************************************)
(* Values of the nullable relations, and of a field a request leaves out.  *)
(***************************************************************************)
NULL == "NULL"
ABSENT == "ABSENT"
\* a request without base_path: no string of characters
ABSENT_PATH == <<"ABSENT">>
\* no row: what first() gives for an empty queryset, and self.instance of a
\* create; its pk 0 is no row's
None == [pk |-> 0, name |-> NULL, base_path |-> <<>>, publisher |-> NULL,
         repository |-> NULL]
\* the names requests carry; name is unique, so there are at most as many rows
Names == {"rawhide", "stable"}
Publishers == {"publisher1"}
Repositories == {"repository1"}

\* what an operation on the content tables answers: the error raised, if
\* any, and the primary key of the row saved or returned
Outcome(op, error, pk) ==
    [op |-> op, error |-> error, pk |-> pk, unit |-> "none"]

\* the authentication scopes of the registry
Scopes == {"repository:library/a:pull", "repository:b/a:pull"}

\* no download yet
NoFetch ==
    [pc |-> "idle", downloader |-> "none", scope |-> "none", handle_401 |-> TRUE,
     tries |-> 0, sent |-> 0, unauthorized |-> 0, retries |-> 0,
     tokenRequests |-> 0, error |-> ""]

\* the requests that can be served at the same time, each by its own worker
Requests == {"request1", "request2"}

\* a worker serving no request
NoRequest ==
    [pc |-> "idle", instance |-> None.pk, name |-> ABSENT,
     base_path |-> ABSENT_PATH]

(***************************************************************************)
(* DockerDistributionSerializer._validate_path_overlap                     *)
(***************************************************************************)
\* the loop building q: one Q(base_path=search) for each prefix of path that
\* ends where a segment ends
RECURSIVE searchTerms(_, _)
searchTerms(search, subdirs) ==
    IF subdirs = <<>>
    THEN {search}
    ELSE {search} \cup searchTerms(join(search, Head(subdirs)), Tail(subdirs))

\* the paths q matches exactly
Q(path) == searchTerms(Head(split(path)), Tail(split(path)))

\* filter with the startswith lookup given path without the "/" after it
filterWithoutSlash(path) ==
    {d \in distributions :
        \/ d.base_path \in Q(path)
        \/ StartsWith(d.base_path, path)}

\* q |= Q(base_path__startswith='{}/'.format(path)); objects.filter(q)
filter(path) ==
    {d \in distributions :
        \/ d.base_path \in Q(path)
        \/ StartsWith(d.base_path, path \o Slash)}

\* qs.exclude(pk=self.instance.pk) when the serializer has an instance
exclude(qs, instance) ==
    IF instance # None.pk THEN {d \in qs : d.pk # instance} ELSE qs

\* first taking the row with the greatest primary key
last(qs) ==
    IF qs = {} THEN None
    ELSE CHOOSE d \in qs : \A e \in qs : d.pk >= e.pk

\* qs.first(): an unordered queryset is ordered by primary key
first(qs) ==
    IF qs = {} THEN None
    ELSE CHOOSE d \in qs : \A e \in qs : d.pk <= e.pk

\* the row the ValidationError names, None when path is returned
_validate_path_overlap(path, instance) ==
    first(exclude(filter(path), instance))

(***************************************************************************)
(* Field validation of a request.                                          *)
(***************************************************************************)
\* ModelSerializer._validate_relative_path: a relative path neither begins
\* nor ends with a slash (the alphabet has no space)
_validate_relative_path(path) == path = strip(path)

\* UniqueValidator(queryset=DockerDistribution.objects.all()): the queryset
\* leaves out the instance being updated
UniqueValidator(field, value, instance) ==
    \A d \in exclude(distributions, instance) : d[field] # value

\* validate_base_path without its call of _validate_path_overlap
validateRelativePathOnly(path, instance) ==
    IF ~_validate_relative_path(path) THEN {"relative_path"} ELSE {}

\* DockerDistributionSerializer.validate_base_path
validate_base_path(path, instance) ==
    IF ~_validate_relative_path(path) THEN {"relative_path"}
    ELSE IF _validate_path_overlap(path, instance) # None THEN {"overlap"}
    ELSE {}

\* the name field: required unless the update is partial, and unique
nameErrors(name, instance, partial) ==
    IF name = ABSENT THEN (IF partial THEN {} ELSE {"name_required"})
    ELSE IF ~UniqueValidator("name", name, instance) THEN {"name_unique"}
    ELSE {}

\* the base_path field: required unless the update is partial, not blank,
\* unique, and then validate_base_path
basePathErrors(path, instance, partial) ==
    IF path = ABSENT_PATH THEN (IF partial THEN {} ELSE {"base_path_required"})
    ELSE IF path = <<>> THEN {"base_path_blank"}
    ELSE IF ~UniqueValidator("base_path", path, instance) THEN {"base_path_unique"}
    ELSE validate_base_path(path, instance)

(***************************************************************************)
(* DockerDistributionSerializer.validate                                   *)
(***************************************************************************)
Row(pk) == CHOOSE d \in distributions : d.pk = pk

\* the value validate() looks at: the request's, else the instance's, else None
effective(field, value, instance) ==
    IF value # ABSENT THEN value
    ELSE IF instance # None.pk THEN Row(instance)[field]
    ELSE NULL

\* validate without its second check, "Publisher must be set if repository
\* is set"
validateRepositoryOnly(publisher, repository, instance) ==
    LET p == effective("publisher", publisher, instance)
        r == effective("repository", repository, instance)
    IN IF p # NULL /\ r = NULL THEN {"repository"} ELSE {}

validate(publisher, repository, instance) ==
    LET p == effective("publisher", publisher, instance)
        r == effective("repository", repository, instance)
    IN IF p # NULL /\ r = NULL THEN {"repository"}
       ELSE IF r # NULL /\ p = NULL THEN {"publisher"}
       ELSE {}

\* is_valid(): the field errors, and validate() when there is none
errorsOf(name, path, publisher, repository, instance, partial) ==
    LET fieldErrors == nameErrors(name, instance, partial)
                           \cup basePathErrors(path, instance, partial)
    IN IF fieldErrors # {} THEN fieldErrors
       ELSE validate(publisher, repository, instance)

\* the answer of a request: the error codes, and the name the overlap error
\* gives ("Overlaps with existing distribution '{}'")
Answer(op, errors, path, instance) ==
    [op |-> op, errors |-> errors,
     match |-> IF "overlap" \in errors
               THEN _validate_path_overlap(path, instance).name
               ELSE None.name]

(***************************************************************************)
(* The requests.                                                           *)
(***************************************************************************)
\* POST: validate, then save a new row
DoCreate(paths, publishers, repositories) ==
    \E name \in Names, path \in paths,
       publisher \in publishers, repository \in repositories :
        LET errors == errorsOf(name, path, publisher, repository, None.pk, FALSE)
            pk == Cardinality(distributions) + 1
        IN /\ response' = Answer("create", errors, path, None.pk)
           /\ distributions' =
                  IF errors # {} THEN distributions
                  ELSE distributions \cup
                         {[pk |-> pk, name |-> name, base_path |-> path,
                           publisher |-> IF publisher = ABSENT THEN NULL ELSE publisher,
                           repository |-> IF repository = ABSENT THEN NULL ELSE repository]}
           /\ UNCHANGED <<contentVars, remoteVars, requestVars>>

\* a field the request carries replaces the row's
updated(row, name, path, publisher, repository) ==
    [pk |-> row.pk,
     name |-> IF name = ABSENT THEN row.name ELSE name,
     base_path |-> IF path = ABSENT_PATH THEN row.base_path ELSE path,
     publisher |-> IF publisher = ABSENT THEN row.publisher ELSE publisher,
     repository |-> IF repository = ABSENT THEN row.repository ELSE repository]

\* PUT (partial = FALSE) and PATCH (partial = TRUE): validate against the
\* instance, then save the fields sent
DoUpdate(paths, publishers, repositories) ==
    \E row \in distributions, partial \in BOOLEAN,
       name \in Names \cup {ABSENT}, path \in paths \cup {ABSENT_PATH},
       publisher \in publishers, repository \in repositories :
        LET errors == errorsOf(name, path, publisher, repository, row.pk, partial)
        IN /\ response' = Answer(IF partial THEN "partial_update" ELSE "update",
                                  errors, path, row.pk)
           /\ distributions' =
                  IF errors # {} THEN distributions
                  ELSE (distributions \ {row})
                         \cup {updated(row, name, path, publisher, repository)}
           /\ UNCHANGED <<contentVars, remoteVars, requestVars>>

\* a call of _validate_path_overlap on its own
CheckOverlap ==
    \E path \in BasePaths \ {<<>>},
       instance \in {d.pk : d \in distributions} \cup {None.pk} :
        LET match == _validate_path_overlap(path, instance)
        IN /\ response' = Answer("overlap",
                                  IF match = None THEN {} ELSE {"overlap"},
                                  path, instance)
           /\ UNCHANGED <<distributions, contentVars, remoteVars, requestVars>>

Create == DoCreate(BasePaths, {ABSENT}, {ABSENT})

Update == DoUpdate(BasePaths, {ABSENT}, {ABSENT})

Init ==
    /\ distributions = {}
    /\ response = Answer("none", {}, <<>>, None.pk)
    /\ blobs = {}
    /\ manifests = {}
    /\ manifestLists = {}
    /\ blobManifestBlobs = {}
    /\ manifestListManifests = {}
    /\ manifestTags = {}
    /\ manifestListTags = {}
    /\ nextPk = 1
    /\ result = Outcome("none", "", None.pk)
    /\ upstream_name = <<"a">>
    /\ namespaced = <<>>
    /\ remoteOp = "none"
    /\ hasDownloadFactory = FALSE
    /\ fetch = NoFetch
    /\ tokens = [scope \in Scopes |-> FALSE]
    /\ requests = [r \in Requests |-> NoRequest]

Next == Create \/ Update \/ CheckOverlap

Spec == Init /\ [][Next]_vars

(***************************************************************************)
(* The same requests served by two workers at once: each worker calls      *)
(* is_valid(), which reads the table, and later save(), which writes it;   *)
(* the serializer takes no lock between the two and the table's own        *)
(* constraints are the unique name and the unique base_path.               *)
(***************************************************************************)
RacePaths == {<<"a">>, <<"a", "a">>, <<"a", "/", "a">>}

\* is_valid() of a create (instance None) or an update of a stored row: the
\* validated data is kept by the worker when there is no error
IsValid(r) ==
    \E instance \in {d.pk : d \in distributions} \cup {None.pk},
       partial \in BOOLEAN,
       name \in Names \cup {ABSENT}, path \in RacePaths \cup {ABSENT_PATH} :
        LET create == instance = None.pk
            errors == errorsOf(name, path, ABSENT, ABSENT, instance,
                               partial /\ ~create)
            op == IF create THEN "create"
                  ELSE IF partial THEN "partial_update" ELSE "update"
        IN /\ requests[r].pc = "idle"
           /\ create => ~partial
           /\ response' = Answer(op, errors, path, instance)
           /\ requests' =
                  IF errors # {} THEN requests
                  ELSE [requests EXCEPT ![r] =
                            [pc |-> "validated", instance |-> instance,
                             name |-> name, base_path |-> path]]
           /\ UNCHANGED <<distributions, contentVars, remoteVars>>

\* the row save() writes: a new one, or the instance with the fields sent
saved(request) ==
    IF request.instance = None.pk
    THEN [pk |-> Cardinality(distributions) + 1, name |-> request.name,
          base_path |-> request.base_path, publisher |-> NULL,
          repository |-> NULL]
    ELSE updated(Row(request.instance), request.name, request.base_path,
                 ABSENT, ABSENT)

\* the table's constraints: name and base_path are unique
IntegrityError(row) ==
    \E d \in distributions :
        /\ d.pk # row.pk
        /\ d.name = row.name \/ d.base_path = row.base_path

\* save() of the validated data
Save(r) ==
    LET row == saved(requests[r])
        refused == IntegrityError(row)
    IN /\ requests[r].pc = "validated"
       /\ distributions' =
              IF refused THEN distributions
              ELSE {d \in distributions : d.pk # row.pk} \cup {row}
       /\ response' = [op |-> "save",
                       errors |-> IF refused THEN {"IntegrityError"} ELSE {},
                       match |-> None.name]
       /\ requests' = [requests EXCEPT ![r] = NoRequest]
       /\ UNCHANGED <<contentVars, remoteVars>>

NextConcurrent == \E r \in Requests : IsValid(r) \/ Save(r)

SpecConcurrent == Init /\ [][NextConcurrent]_vars

(***************************************************************************)
(* The same requests carrying publisher and repository, over a few base    *)
(* paths.                                                                  *)
(***************************************************************************)
FieldPaths == {<<"a">>, <<"a", "a">>}
PublisherInputs == Publishers \cup {NULL, ABSENT}
RepositoryInputs == Repositories \cup {NULL, ABSENT}

CreateWithFields == DoCreate(FieldPaths, PublisherInputs, RepositoryInputs)

UpdateFields == DoUpdate(FieldPaths, PublisherInputs, RepositoryInputs)

NextFields == CreateWithFields \/ UpdateFields

SpecFields == Init /\ [][NextFields]_vars

(***************************************************************************)
(* The content models (app/models.py).                                     *)
(***************************************************************************)
MANIFEST_V1 == "application/vnd.docker.distribution.manifest.v1+json"
MANIFEST_V2 == "application/vnd.docker.distribution.manifest.v2+json"
MANIFEST_LIST == "application/vnd.docker.distribution.manifest.list.v2+json"
CONFIG_BLOB == "application/vnd.docker.container.image.v1+json"
REGULAR_BLOB == "application/vnd.docker.image.rootfs.diff.tar.gzip"
FOREIGN_BLOB == "application/vnd.docker.image.rootfs.foreign.diff.tar.gzip"

Digests == {"sha256:aa", "sha256:bb"}
TagNames == {"latest", "stable"}

\* a null foreign key
NullPk == None.pk
\* the primary keys a request may name, stored or not
Pks == 1..MaxTagPk
\* primary keys are left to give out
Within(limit) == nextPk <= limit

\* unique_together of ManifestBlob with media_type added to it
digestAndMediaType == {"digest", "media_type"}
\* unique_together of ManifestTag with the manifest left out
nameAlone == {"name"}

\* Meta.unique_together of each model
ManifestBlobUnique == {"digest"}
ImageManifestUnique == {"digest"}
ManifestListUnique == {"digest"}
BlobManifestBlobUnique == {"manifest", "manifest_blob"}
ManifestListManifestUnique == {"manifest", "manifest_list"}
ManifestTagUnique == {"name", "manifest"}
ManifestListTagUnique == {"name", "manifest_list"}

\* the fields that are foreign keys, and so integers or null
ForeignKeys == {"config_blob", "manifest", "manifest_blob", "manifest_list"}
isNull(row, f) == f \in ForeignKeys /\ row[f] = NullPk

\* a unique constraint refuses a row equal to a stored one on every field
\* of the constraint; a row with a null among them equals none
uniqueViolated(rows, fields, new) ==
    /\ \A f \in fields : ~isNull(new, f)
    /\ \E r \in rows : \A f \in fields : r[f] = new[f]

pksOf(rows) == {r.pk : r \in rows}

\* a foreign key refuses a value that is no row's primary key; a nullable
\* one takes null
foreignKeyViolated(rows, pk, nullable) ==
    ~(pk \in pksOf(rows) \/ (nullable /\ pk = NullPk))

\* the unit a row holds: the row without its primary key
unitOf(row) == [row EXCEPT !.pk = NullPk]

\* Model.save() of a new row: INSERT
insert(rows, new) == rows \cup {new}

ContentUnchanged ==
    UNCHANGED <<blobs, manifests, manifestLists, blobManifestBlobs,
                manifestListManifests, manifestTags, manifestListTags, nextPk>>

\* ManifestBlob(digest=..., media_type=...).save()
SaveBlob(mediaTypes) ==
    \E digest \in Digests, media_type \in mediaTypes :
        LET new == [pk |-> nextPk, digest |-> digest, media_type |-> media_type]
        IN /\ IF uniqueViolated(blobs, ManifestBlobUnique, new)
              THEN /\ result' = Outcome("save_blob", "IntegrityError", NullPk)
                   /\ ContentUnchanged
              ELSE /\ result' = Outcome("save_blob", "", new.pk)
                   /\ blobs' = insert(blobs, new)
                   /\ nextPk' = nextPk + 1
                   /\ UNCHANGED <<manifests, manifestLists, blobManifestBlobs,
                                  manifestListManifests, manifestTags,
                                  manifestListTags>>
           /\ UNCHANGED <<distVars, remoteVars, requestVars>>

\* schema_version and media_type of a manifest
ManifestKinds ==
    {[schema_version |-> 1, media_type |-> MANIFEST_V1],
     [schema_version |-> 2, media_type |-> MANIFEST_V2]}

\* ImageManifest(digest=..., config_blob=...).save()
SaveManifest(kinds) ==
    \E digest \in Digests, kind \in kinds, config_blob \in Pks \cup {NullPk} :
        LET new == [pk |-> nextPk, digest |-> digest,
                    schema_version |-> kind.schema_version,
                    media_type |-> kind.media_type, config_blob |-> config_blob]
        IN /\ IF \/ uniqueViolated(manifests, ImageManifestUnique, new)
                 \/ foreignKeyViolated(blobs, config_blob, TRUE)
              THEN /\ result' = Outcome("save_manifest", "IntegrityError", NullPk)
                   /\ ContentUnchanged
              ELSE /\ result' = Outcome("save_manifest", "", new.pk)
                   /\ manifests' = insert(manifests, new)
                   /\ nextPk' = nextPk + 1
                   /\ UNCHANGED <<blobs, manifestLists, blobManifestBlobs,
                                  manifestListManifests, manifestTags,
                                  manifestListTags>>
           /\ UNCHANGED <<distVars, remoteVars, requestVars>>

\* ManifestList(digest=...).save()
SaveManifestList ==
    \E digest \in Digests :
        LET new == [pk |-> nextPk, digest |-> digest, schema_version |-> 2,
                    media_type |-> MANIFEST_LIST]
        IN /\ IF uniqueViolated(manifestLists, ManifestListUnique, new)
              THEN /\ result' = Outcome("save_manifest_list", "IntegrityError", NullPk)
                   /\ ContentUnchanged
              ELSE /\ result' = Outcome("save_manifest_list", "", new.pk)
                   /\ manifestLists' = insert(manifestLists, new)
                   /\ nextPk' = nextPk + 1
                   /\ UNCHANGED <<blobs, manifests, blobManifestBlobs,
                                  manifestListManifests, manifestTags,
                                  manifestListTags>>
           /\ UNCHANGED <<distVars, remoteVars, requestVars>>

\* BlobManifestBlob(manifest=..., manifest_blob=...).save()
SaveBlobManifestBlob ==
    \E manifest \in Pks, manifest_blob \in Pks :
        LET new == [manifest |-> manifest, manifest_blob |-> manifest_blob]
        IN /\ IF \/ uniqueViolated(blobManifestBlobs, BlobManifestBlobUnique, new)
                 \/ foreignKeyViolated(manifests, manifest, FALSE)
                 \/ foreignKeyViolated(blobs, manifest_blob, FALSE)
              THEN /\ result' = Outcome("save_blob_manifest_blob", "IntegrityError", NullPk)
                   /\ ContentUnchanged
              ELSE /\ result' = Outcome("save_blob_manifest_blob", "", NullPk)
                   /\ blobManifestBlobs' = insert(blobManifestBlobs, new)
                   /\ UNCHANGED <<blobs, manifests, manifestLists,
                                  manifestListManifests, manifestTags,
                                  manifestListTags, nextPk>>
           /\ UNCHANGED <<distVars, remoteVars, requestVars>>

\* ManifestListManifest(manifest=..., manifest_list=...).save()
SaveManifestListManifest ==
    \E manifest \in Pks, manifest_list \in Pks :
        LET new == [manifest |-> manifest, manifest_list |-> manifest_list]
        IN /\ IF \/ uniqueViolated(manifestListManifests,
                                   ManifestListManifestUnique, new)
                 \/ foreignKeyViolated(manifests, manifest, FALSE)
                 \/ foreignKeyViolated(manifestLists, manifest_list, FALSE)
              THEN /\ result' = Outcome("save_manifest_list_manifest",
                                        "IntegrityError", NullPk)
                   /\ ContentUnchanged
              ELSE /\ result' = Outcome("save_manifest_list_manifest", "", NullPk)
                   /\ manifestListManifests' = insert(manifestListManifests, new)
                   /\ UNCHANGED <<blobs, manifests, manifestLists,
                                  blobManifestBlobs, manifestTags,
                                  manifestListTags, nextPk>>
           /\ UNCHANGED <<distVars, remoteVars, requestVars>>

\* ManifestTag(name=..., manifest=...).save()
SaveManifestTag ==
    \E name \in TagNames, manifest \in Pks \cup {NullPk} :
        LET new == [pk |-> nextPk, name |-> name, manifest |-> manifest]
        IN /\ IF \/ uniqueViolated(manifestTags, ManifestTagUnique, new)
                 \/ foreignKeyViolated(manifests, manifest, TRUE)
              THEN /\ result' = [Outcome("save_manifest_tag", "IntegrityError", NullPk)
                                  EXCEPT !.unit = unitOf(new)]
                   /\ ContentUnchanged
              ELSE /\ result' = [Outcome("save_manifest_tag", "", new.pk)
                                  EXCEPT !.unit = unitOf(new)]
                   /\ manifestTags' = insert(manifestTags, new)
                   /\ nextPk' = nextPk + 1
                   /\ UNCHANGED <<blobs, manifests, manifestLists,
                                  blobManifestBlobs, manifestListManifests,
                                  manifestListTags>>
           /\ UNCHANGED <<distVars, remoteVars, requestVars>>

\* ManifestListTag(name=..., manifest_list=...).save()
SaveManifestListTag ==
    \E name \in TagNames, manifest_list \in Pks \cup {NullPk} :
        LET new == [pk |-> nextPk, name |-> name, manifest_list |-> manifest_list]
        IN /\ IF \/ uniqueViolated(manifestListTags, ManifestListTagUnique, new)
                 \/ foreignKeyViolated(manifestLists, manifest_list, TRUE)
              THEN /\ result' = [Outcome("save_manifest_list_tag",
                                         "IntegrityError", NullPk)
                                  EXCEPT !.unit = unitOf(new)]
                   /\ ContentUnchanged
              ELSE /\ result' = [Outcome("save_manifest_list_tag", "", new.pk)
                                  EXCEPT !.unit = unitOf(new)]
                   /\ manifestListTags' = insert(manifestListTags, new)
                   /\ nextPk' = nextPk + 1
                   /\ UNCHANGED <<blobs, manifests, manifestLists,
                                  blobManifestBlobs, manifestListManifests,
                                  manifestTags>>
           /\ UNCHANGED <<distVars, remoteVars, requestVars>>

(***************************************************************************)
(* delete(): every foreign key is on_delete=models.CASCADE.                *)
(***************************************************************************)
\* config_blob without on_delete=models.CASCADE: a deleted blob takes no
\* manifest with it
configuredByNone(deletedBlobs) == {}

\* the manifests whose config_blob is one of the blobs deleted
configuredBy(deletedBlobs) ==
    {m.pk : m \in {x \in manifests : x.config_blob \in deletedBlobs}}

\* the tables once the blobs, manifests and manifest lists named are deleted,
\* with the manifests, join rows and tags that reference them
Cascade(deletedBlobs, deletedManifests, deletedLists) ==
    LET ms == deletedManifests \cup configuredBy(deletedBlobs)
    IN /\ blobs' = {b \in blobs : b.pk \notin deletedBlobs}
       /\ manifests' = {m \in manifests : m.pk \notin ms}
       /\ manifestLists' = {l \in manifestLists : l.pk \notin deletedLists}
       /\ blobManifestBlobs' =
              {j \in blobManifestBlobs :
                  j.manifest \notin ms /\ j.manifest_blob \notin deletedBlobs}
       /\ manifestListManifests' =
              {j \in manifestListManifests :
                  j.manifest \notin ms /\ j.manifest_list \notin deletedLists}
       /\ manifestTags' = {t \in manifestTags : t.manifest \notin ms}
       /\ manifestListTags' =
              {t \in manifestListTags : t.manifest_list \notin deletedLists}
       /\ UNCHANGED nextPk

\* delete() returns the number of rows deleted
Deleted(op) ==
    result' = [Outcome(op, "", NullPk) EXCEPT !.unit =
        (Cardinality(blobs) - Cardinality(blobs'))
        + (Cardinality(manifests) - Cardinality(manifests'))
        + (Cardinality(manifestLists) - Cardinality(manifestLists'))
        + (Cardinality(blobManifestBlobs) - Cardinality(blobManifestBlobs'))
        + (Cardinality(manifestListManifests) - Cardinality(manifestListManifests'))
        + (Cardinality(manifestTags) - Cardinality(manifestTags'))
        + (Cardinality(manifestListTags) - Cardinality(manifestListTags'))]

DeleteBlob ==
    \E b \in blobs :
        /\ Cascade({b.pk}, {}, {})
        /\ Deleted("delete_blob")
        /\ UNCHANGED <<distVars, remoteVars, requestVars>>

DeleteManifest ==
    \E m \in manifests :
        /\ Cascade({}, {m.pk}, {})
        /\ Deleted("delete_manifest")
        /\ UNCHANGED <<distVars, remoteVars, requestVars>>

DeleteManifestList ==
    \E l \in manifestLists :
        /\ Cascade({}, {}, {l.pk})
        /\ Deleted("delete_manifest_list")
        /\ UNCHANGED <<distVars, remoteVars, requestVars>>

DeleteManifestTag ==
    \E t \in manifestTags :
        /\ manifestTags' = manifestTags \ {t}
        /\ UNCHANGED <<blobs, manifests, manifestLists, blobManifestBlobs,
                       manifestListManifests, manifestListTags, nextPk>>
        /\ Deleted("delete_manifest_tag")
        /\ UNCHANGED <<distVars, remoteVars, requestVars>>

DeleteManifestListTag ==
    \E t \in manifestListTags :
        /\ manifestListTags' = manifestListTags \ {t}
        /\ UNCHANGED <<blobs, manifests, manifestLists, blobManifestBlobs,
                       manifestListManifests, manifestTags, nextPk>>
        /\ Deleted("delete_manifest_list_tag")
        /\ UNCHANGED <<distVars, remoteVars, requestVars>>

(***************************************************************************)
(* Ingestion of a unit parsed from an upstream document: the unit stored   *)
(* under the same digest is returned and nothing is written; a stored unit *)
(* of the same digest and other content is a DuplicateDigestConflict; a    *)
(* manifest whose config blob is not stored is a MissingReferencedBlob.    *)
(***************************************************************************)
\* ingestion as a plain save: a stored digest raises IntegrityError
ingestBySave(rows, fields, new) ==
    IF uniqueViolated(rows, fields, new)
    THEN [error |-> "IntegrityError", pk |-> NullPk, rows |-> rows]
    ELSE [error |-> "", pk |-> new.pk, rows |-> insert(rows, new)]

\* what ingesting new into rows gives: the error, the primary key of the
\* unit returned, and the rows afterwards
ingest(rows, fields, new) ==
    LET same == {r \in rows : \A f \in fields : r[f] = new[f]}
    IN IF same = {}
       THEN [error |-> "", pk |-> new.pk, rows |-> insert(rows, new)]
       ELSE LET existing == CHOOSE r \in same : TRUE
            IN IF unitOf(existing) = unitOf(new)
               THEN [error |-> "", pk |-> existing.pk, rows |-> rows]
               ELSE [error |-> "DuplicateDigestConflict", pk |-> NullPk,
                     rows |-> rows]

Ingested(op, got, new) ==
    /\ result' = [op |-> op, error |-> got.error, pk |-> got.pk,
                  unit |-> unitOf(new)]
    /\ nextPk' = IF got.pk = new.pk THEN nextPk + 1 ELSE nextPk

IngestBlob ==
    \E digest \in Digests,
       media_type \in {CONFIG_BLOB, REGULAR_BLOB, FOREIGN_BLOB} :
        LET new == [pk |-> nextPk, digest |-> digest, media_type |-> media_type]
            got == ingest(blobs, ManifestBlobUnique, new)
        IN /\ Ingested("ingest_blob", got, new)
           /\ blobs' = got.rows
           /\ UNCHANGED <<manifests, manifestLists, blobManifestBlobs,
                          manifestListManifests, manifestTags, manifestListTags>>
           /\ UNCHANGED <<distVars, remoteVars, requestVars>>

IngestManifest ==
    \E digest \in Digests, kind \in ManifestKinds, config_blob \in Pks \cup {NullPk} :
        LET new == [pk |-> nextPk, digest |-> digest,
                    schema_version |-> kind.schema_version,
                    media_type |-> kind.media_type, config_blob |-> config_blob]
            got == IF /\ \A m \in manifests : m.digest # digest
                      /\ foreignKeyViolated(blobs, config_blob, TRUE)
                   THEN [error |-> "MissingReferencedBlob", pk |-> NullPk,
                         rows |-> manifests]
                   ELSE ingest(manifests, ImageManifestUnique, new)
        IN /\ Ingested("ingest_manifest", got, new)
           /\ manifests' = got.rows
           /\ UNCHANGED <<blobs, manifestLists, blobManifestBlobs,
                          manifestListManifests, manifestTags, manifestListTags>>
           /\ UNCHANGED <<distVars, remoteVars, requestVars>>

IngestManifestList ==
    \E digest \in Digests :
        LET new == [pk |-> nextPk, digest |-> digest, schema_version |-> 2,
                    media_type |-> MANIFEST_LIST]
            got == ingest(manifestLists, ManifestListUnique, new)
        IN /\ Ingested("ingest_manifest_list", got, new)
           /\ manifestLists' = got.rows
           /\ UNCHANGED <<blobs, manifests, blobManifestBlobs,
                          manifestListManifests, manifestTags, manifestListTags>>
           /\ UNCHANGED <<distVars, remoteVars, requestVars>>

(***************************************************************************)
(* The digest-keyed units: blobs, manifests and manifest lists of every    *)
(* media type, saved, ingested and deleted.                                *)
(***************************************************************************)
NextStore ==
    \/ Within(MaxPk) /\ SaveBlob({CONFIG_BLOB, REGULAR_BLOB, FOREIGN_BLOB})
    \/ Within(MaxPk) /\ SaveManifest(ManifestKinds)
    \/ Within(MaxPk) /\ SaveManifestList
    \/ Within(MaxPk) /\ IngestBlob
    \/ Within(MaxPk) /\ IngestManifest
    \/ Within(MaxPk) /\ IngestManifestList
    \/ DeleteBlob
    \/ DeleteManifest
    \/ DeleteManifestList

SpecStore == Init /\ [][NextStore]_vars

(***************************************************************************)
(* The reference graph: one media type per model, every relation, tags     *)
(* and deletions.                                                          *)
(***************************************************************************)
GraphManifestKinds == {[schema_version |-> 2, media_type |-> MANIFEST_V2]}

NextGraph ==
    \/ Within(MaxPk) /\ SaveBlob({CONFIG_BLOB})
    \/ Within(MaxPk) /\ SaveManifest(GraphManifestKinds)
    \/ Within(MaxPk) /\ SaveManifestList
    \/ SaveBlobManifestBlob
    \/ SaveManifestListManifest
    \/ Within(MaxPk) /\ SaveManifestTag
    \/ Within(MaxPk) /\ SaveManifestListTag
    \/ DeleteBlob
    \/ DeleteManifest
    \/ DeleteManifestList
    \/ DeleteManifestTag
    \/ DeleteManifestListTag

SpecGraph == Init /\ [][NextGraph]_vars

(***************************************************************************)
(* Tagging: manifests, manifest lists and their tags.                      *)
(***************************************************************************)
NextTags ==
    \/ Within(MaxTagPk) /\ SaveManifest(GraphManifestKinds)
    \/ Within(MaxTagPk) /\ SaveManifestList
    \/ Within(MaxTagPk) /\ SaveManifestTag
    \/ Within(MaxTagPk) /\ SaveManifestListTag
    \/ DeleteManifest
    \/ DeleteManifestList
    \/ DeleteManifestTag
    \/ DeleteManifestListTag

SpecTags == Init /\ [][NextTags]_vars

(***************************************************************************)
(* DockerRemote.namespaced_upstream_name                                   *)
(***************************************************************************)
Library == <<"l", "i", "b", "r", "a", "r", "y", "/">>

\* '/' in name
contains(name, c) == \E i \in 1..Len(name) : name[i] = c

\* the property with 'library/' put before every name
alwaysLibrary(name) == Library \o name

\* the property, of a remote whose upstream_name is name
namespaced_upstream_name(name) ==
    IF ~contains(name, "/") THEN Library \o name ELSE name

\* the serializer's upstream_name: required, not blank
UpstreamNames == Strings(MaxLen) \ {<<>>}

\* the remote is saved with an upstream_name
SaveRemote ==
    \E name \in UpstreamNames :
        /\ upstream_name' = name
        /\ remoteOp' = "save"
        /\ UNCHANGED <<namespaced, hasDownloadFactory, fetch, tokens>>
        /\ UNCHANGED <<distVars, contentVars, requestVars>>

\* remote.namespaced_upstream_name is read
ReadNamespacedUpstreamName ==
    /\ namespaced' = namespaced_upstream_name(upstream_name)
    /\ remoteOp' = "read"
    /\ UNCHANGED <<upstream_name, hasDownloadFactory, fetch, tokens>>
    /\ UNCHANGED <<distVars, contentVars, requestVars>>

NextRemote == SaveRemote \/ ReadNamespacedUpstreamName

SpecRemote == Init /\ [][NextRemote]_vars

(***************************************************************************)
(* DockerRemote.download_factory and get_downloader, and the download the  *)
(* downloader they build runs.                                             *)
(***************************************************************************)
\* downloader_overrides of the DownloaderFactory; another scheme keeps the
\* factory's own downloader
downloader_overrides(scheme) ==
    IF scheme \in {"http", "https"} THEN "TokenAuthHttpDownloader"
    ELSE "FileDownloader"

\* a 401 always leading to a token request and a retry
alwaysRetry(handle_401) == "token"

\* what a 401 leads to: a token request the first time, the end after the
\* retry
on401(handle_401) == IF handle_401 THEN "token" ELSE "failed"

Ended == {"idle", "done", "failed"}

\* get_downloader(url): the factory is made on first access, the downloader
\* built, and its request sent, with the scope's cached token if there is one
StartFetch ==
    \E scheme \in {"http", "https", "file"}, scope \in Scopes :
        /\ fetch.pc \in Ended
        /\ hasDownloadFactory' = TRUE
        /\ fetch' = [NoFetch EXCEPT !.pc = "requesting",
                                    !.downloader = downloader_overrides(scheme),
                                    !.scope = scope, !.tries = 1, !.sent = 1]
        /\ UNCHANGED <<upstream_name, namespaced, remoteOp, tokens>>
        /\ UNCHANGED <<distVars, contentVars, requestVars>>

FetchStep(next) ==
    /\ fetch' = next
    /\ UNCHANGED <<upstream_name, namespaced, remoteOp, hasDownloadFactory>>
    /\ UNCHANGED <<distVars, contentVars, requestVars>>

\* 2xx: the body is returned
Answer200 ==
    /\ fetch.pc = "requesting"
    /\ FetchStep([fetch EXCEPT !.pc = "done"])
    /\ UNCHANGED tokens

\* 401: the first leads to a token request, the token cached being dropped;
\* one after the retry is AuthenticationFailed
Answer401 ==
    /\ fetch.pc = "requesting"
    /\ fetch.downloader = "TokenAuthHttpDownloader"
    /\ IF on401(fetch.handle_401) = "token"
       THEN /\ FetchStep([fetch EXCEPT !.pc = "token",
                                       !.unauthorized = @ + 1])
            /\ tokens' = [tokens EXCEPT ![fetch.scope] = FALSE]
       ELSE /\ FetchStep([fetch EXCEPT !.pc = "failed",
                                       !.unauthorized = @ + 1,
                                       !.error = "AuthenticationFailed"])
            /\ UNCHANGED tokens

\* another error status: RegistryFetchFailed
AnswerError ==
    /\ fetch.pc = "requesting"
    /\ FetchStep([fetch EXCEPT !.pc = "failed", !.error = "RegistryFetchFailed"])
    /\ UNCHANGED tokens

\* a timeout or a reset: the transport sends the request again, a bounded
\* number of times
NetworkFailure ==
    /\ fetch.pc = "requesting"
    /\ IF fetch.tries < MaxTries
       THEN FetchStep([fetch EXCEPT !.tries = @ + 1, !.sent = @ + 1])
       ELSE FetchStep([fetch EXCEPT !.pc = "failed",
                                    !.error = "RegistryFetchFailed"])
    /\ UNCHANGED tokens

\* the realm gives a token: it is cached for the scope and the original
\* request is sent once more
TokenGranted ==
    /\ fetch.pc = "token"
    /\ FetchStep([fetch EXCEPT !.pc = "requesting", !.handle_401 = FALSE,
                               !.tries = 1, !.sent = @ + 1, !.retries = @ + 1,
                               !.tokenRequests = @ + 1])
    /\ tokens' = [tokens EXCEPT ![fetch.scope] = TRUE]

\* the realm answers with an error
TokenRefused ==
    /\ fetch.pc = "token"
    /\ FetchStep([fetch EXCEPT !.pc = "failed", !.tokenRequests = @ + 1,
                               !.error = "RegistryFetchFailed"])
    /\ UNCHANGED tokens

Answers ==
    \/ Answer200
    \/ Answer401
    \/ AnswerError
    \/ NetworkFailure
    \/ TokenGranted
    \/ TokenRefused

NextFetch == StartFetch \/ Answers

\* a request sent is answered or times out
SpecFetch == Init /\ [][NextFetch]_vars /\ WF_vars(Answers)

(***************************************************************************)
(* What it is for two base paths to overlap.                               *)
(***************************************************************************)
\* p is a proper prefix of q that ends where q has a "/"
BoundaryPrefix(p, q) ==
    /\ Len(p) < Len(q)
    /\ SubSeq(q, 1, Len(p)) = p
    /\ q[Len(p) + 1] = "/"

Overlaps(p, q) == p = q \/ BoundaryPrefix(p, q) \/ BoundaryPrefix(q, p)

Instances == {d.pk : d \in distributions} \cup {None.pk}

Stored(path) == \E d \in distributions : d.base_path = path

(***************************************************************************)
(* C1: _validate_path_overlap rejects a candidate exactly when a stored    *)
(* distribution other than the instance has a base path equal to the       *)
(* candidate, a prefix of it ending at a "/", or an extension of it past   *)
(* a "/".                                                                  *)
(***************************************************************************)
OverlapRejectedIff ==
    \A path \in BasePaths \ {<<>>}, instance \in Instances :
        (_validate_path_overlap(path, instance) # None)
            <=> \E d \in distributions :
                    d.pk # instance /\ Overlaps(d.base_path, path)

\* "a" is stored and a check was rejected; "a/a" is rejected against it,
\* "aa" is not
OverlapRejectedWitness ==
    /\ response.op = "overlap"
    /\ response.errors = {"overlap"}
    /\ {d.base_path : d \in distributions} = {<<"a">>}
    /\ _validate_path_overlap(<<"a", "/", "a">>, None.pk) # None
    /\ _validate_path_overlap(<<"a", "a">>, None.pk) = None

(***************************************************************************)
(* C2: no two stored distributions have overlapping base paths.            *)
(***************************************************************************)
NoOverlappingBasePaths ==
    \A d \in distributions, e \in distributions :
        d.pk # e.pk => ~Overlaps(d.base_path, e.base_path)

\* two rows, and an update of one to a path nested in the other's was refused
NoOverlappingWitness ==
    /\ Cardinality(distributions) = 2
    /\ response.op = "partial_update"
    /\ response.errors = {"overlap"}
    /\ Stored(<<"a", "/", "a">>)

(***************************************************************************)
(* C9: the distribution an overlap error names is stored, is not the       *)
(* instance, overlaps the candidate, and is the one with the least primary *)
(* key among those, so the same check always names the same one.           *)
(***************************************************************************)
OverlapNamesFirstMatch ==
    /\ \A path \in BasePaths \ {<<>>}, instance \in Instances :
            LET match == _validate_path_overlap(path, instance)
            IN match # None =>
                /\ match \in distributions
                /\ match.pk # instance
                /\ Overlaps(match.base_path, path)
                /\ \A d \in distributions :
                       d.pk # instance /\ Overlaps(d.base_path, path)
                           => match.pk <= d.pk
    /\ "overlap" \in response.errors
           => \E d \in distributions : d.name = response.match

\* "a/a" and "a/aa" are stored, both overlap "a", and the check named the
\* first of them
OverlapNamesWitness ==
    /\ response.op = "overlap"
    /\ \E d \in distributions, e \in distributions :
           /\ d.pk < e.pk
           /\ d.base_path = <<"a", "/", "a", "a">>
           /\ e.base_path = <<"a", "/", "a">>
           /\ response.match = d.name
           /\ _validate_path_overlap(<<"a">>, None.pk) = d

(***************************************************************************)
(* C3: every stored distribution has publisher set exactly when repository *)
(* is set, and validate() refuses a request that would leave one of them   *)
(* set without the other.                                                  *)
(***************************************************************************)
\* the value a field has once the request is saved
After(field, value, instance) ==
    IF value # ABSENT THEN value
    ELSE IF instance = None.pk THEN NULL
    ELSE (CHOOSE d \in distributions : d.pk = instance)[field]

PublisherIffRepository ==
    /\ \A d \in distributions : (d.publisher # NULL) <=> (d.repository # NULL)
    /\ \A instance \in Instances,
          publisher \in PublisherInputs, repository \in RepositoryInputs :
            (After("publisher", publisher, instance) # NULL)
                # (After("repository", repository, instance) # NULL)
            => validate(publisher, repository, instance) # {}

\* a row has both set, and an update that would have cleared its publisher
\* alone was refused
PublisherIffRepositoryWitness ==
    /\ response.op = "partial_update"
    /\ response.errors = {"publisher"}
    /\ \E d \in distributions : d.publisher # NULL /\ d.repository # NULL

(***************************************************************************)
(* C4: no two ManifestBlobs share a digest, no two ImageManifests do and   *)
(* no two ManifestLists do.                                                *)
(***************************************************************************)
uniqueDigests(rows) ==
    \A r1 \in rows, r2 \in rows : r1.digest = r2.digest => r1 = r2

DigestUniquePerType ==
    /\ uniqueDigests(blobs)
    /\ uniqueDigests(manifests)
    /\ uniqueDigests(manifestLists)

\* a blob and a manifest carry the same digest, and the save of a second
\* blob was refused
DigestUniqueWitness ==
    /\ result.op = "save_blob"
    /\ result.error = "IntegrityError"
    /\ \E b \in blobs, m \in manifests : b.digest = m.digest

(***************************************************************************)
(* C5: ingesting a unit that is already stored, under its digest and with  *)
(* the same content, raises no error, returns the stored unit and changes  *)
(* no table.                                                               *)
(***************************************************************************)
ingestedInto(op) ==
    IF op = "ingest_blob" THEN blobs
    ELSE IF op = "ingest_manifest" THEN manifests
    ELSE IF op = "ingest_manifest_list" THEN manifestLists
    ELSE {}

ReingestStep ==
    \A e \in ingestedInto(result'.op) :
        unitOf(e) = result'.unit =>
            /\ result'.error = ""
            /\ result'.pk = e.pk
            /\ ContentUnchanged

ReingestIsNoOp == [][ReingestStep]_vars

\* a manifest saved earlier was ingested again and returned
ReingestWitness ==
    /\ result.op = "ingest_manifest"
    /\ result.error = ""
    /\ result.pk \in pksOf(manifests)
    /\ result.pk + 1 < nextPk

(***************************************************************************)
(* C6: there is at most one ManifestTag per name and manifest and one      *)
(* ManifestListTag per name and manifest list, and tagging a name that     *)
(* points at one target to another stored target adds a record and leaves  *)
(* the records there were as they are.                                     *)
(***************************************************************************)
onePerPair(tags, target) ==
    \A t1 \in tags, t2 \in tags :
        (t1.name = t2.name /\ t1[target] = t2[target] /\ t1[target] # NullPk)
            => t1 = t2

\* the step tags unit.name to a stored target it does not point at yet,
\* while it points at another
retagged(tags, target, targets, unit) ==
    /\ unit[target] \in pksOf(targets)
    /\ \E t \in tags :
           /\ t.name = unit.name
           /\ t[target] \in pksOf(targets)
           /\ t[target] # unit[target]
    /\ \A t \in tags : ~(t.name = unit.name /\ t[target] = unit[target])

added(tags, tagsAfter) ==
    /\ result'.error = ""
    /\ tagsAfter = tags \cup {[result'.unit EXCEPT !.pk = result'.pk]}
    /\ Cardinality(tagsAfter) = Cardinality(tags) + 1

TaggingStep ==
    /\ (result'.op = "save_manifest_tag"
           /\ retagged(manifestTags, "manifest", manifests, result'.unit))
        => added(manifestTags, manifestTags')
    /\ (result'.op = "save_manifest_list_tag"
           /\ retagged(manifestListTags, "manifest_list", manifestLists,
                       result'.unit))
        => added(manifestListTags, manifestListTags')

TagsAreRetained ==
    /\ [](onePerPair(manifestTags, "manifest")
            /\ onePerPair(manifestListTags, "manifest_list"))
    /\ [][TaggingStep]_vars

\* one name points at two manifests, by two records, the second just saved
TagsRetainedWitness ==
    /\ result.op = "save_manifest_tag"
    /\ result.error = ""
    /\ \E t1 \in manifestTags, t2 \in manifestTags :
           /\ t1.name = t2.name
           /\ t1.pk < t2.pk
           /\ t2.pk = result.pk
           /\ t1.manifest \in pksOf(manifests)
           /\ t2.manifest \in pksOf(manifests)
           /\ t1.manifest # t2.manifest

(***************************************************************************)
(* C10: every join row, every config_blob that is not null and every tag   *)
(* target that is not null is the primary key of a stored row.             *)
(***************************************************************************)
NoDanglingReference ==
    /\ \A j \in blobManifestBlobs :
           j.manifest \in pksOf(manifests) /\ j.manifest_blob \in pksOf(blobs)
    /\ \A j \in manifestListManifests :
           j.manifest \in pksOf(manifests)
               /\ j.manifest_list \in pksOf(manifestLists)
    /\ \A m \in manifests :
           m.config_blob # NullPk => m.config_blob \in pksOf(blobs)
    /\ \A t \in manifestTags :
           t.manifest # NullPk => t.manifest \in pksOf(manifests)
    /\ \A t \in manifestListTags :
           t.manifest_list # NullPk => t.manifest_list \in pksOf(manifestLists)

\* the deletion of a blob took its manifest, the manifest's join row and
\* the manifest's tag with it
NoDanglingWitness ==
    /\ result.op = "delete_blob"
    /\ result.unit = 4
    /\ manifests = {}
    /\ manifestTags = {}

(***************************************************************************)
(* C8: namespaced_upstream_name is 'library/' followed by upstream_name    *)
(* when upstream_name has no '/', and upstream_name otherwise; reading it  *)
(* leaves upstream_name as it is.                                          *)
(***************************************************************************)
NamespacedStep ==
    remoteOp' = "read" =>
        /\ upstream_name' = upstream_name
        /\ IF \A i \in 1..Len(upstream_name) : upstream_name[i] # "/"
           THEN /\ Len(namespaced') = Len(Library) + Len(upstream_name)
                /\ SubSeq(namespaced', 1, Len(Library)) = Library
                /\ SubSeq(namespaced', Len(Library) + 1, Len(namespaced'))
                       = upstream_name
           ELSE namespaced' = upstream_name

NamespacedUpstreamName == [][NamespacedStep]_vars

\* 'library/a' was read of 'a', which is still the upstream_name
NamespacedWitness ==
    /\ remoteOp = "read"
    /\ upstream_name = <<"a">>
    /\ namespaced = <<"l", "i", "b", "r", "a", "r", "y", "/", "a">>

(***************************************************************************)
(* C7: a download by the token-auth downloader asks for a token and sends  *)
(* the original request again at most once, and only after a 401; a 401 to *)
(* that retry ends it with AuthenticationFailed and nothing more is sent;  *)
(* every download ends.                                                    *)
(***************************************************************************)
OneRetry ==
    /\ fetch.retries <= 1
    /\ fetch.tokenRequests <= 1
    /\ fetch.unauthorized <= 2
    /\ fetch.retries = 1 => fetch.unauthorized >= 1 /\ fetch.tokenRequests = 1
    /\ fetch.unauthorized >= 1 /\ fetch.pc = "requesting" => fetch.retries = 1
    /\ fetch.unauthorized = 2 =>
           /\ fetch.pc = "failed"
           /\ fetch.error = "AuthenticationFailed"
           /\ fetch.retries = 1
    /\ fetch.error = "AuthenticationFailed" => fetch.unauthorized = 2
    /\ fetch.pc # "idle" /\ fetch.downloader # "TokenAuthHttpDownloader"
           => fetch.unauthorized = 0 /\ fetch.tokenRequests = 0

\* once a download has ended, the next request sent is a new download's
NothingSentAfterTheEnd ==
    fetch.pc \in {"done", "failed"} =>
        \/ fetch' = fetch
        \/ fetch'.pc = "requesting" /\ fetch'.sent = 1 /\ fetch'.unauthorized = 0

FetchEndsAfterOneRetry ==
    /\ []OneRetry
    /\ [][NothingSentAfterTheEnd]_vars
    /\ (fetch.pc \in {"requesting", "token"}) ~> (fetch.pc \in {"done", "failed"})

\* the retry was answered 401 and the download ended with
\* AuthenticationFailed
FetchEndsWitness ==
    /\ fetch.pc = "failed"
    /\ fetch.error = "AuthenticationFailed"
    /\ fetch.unauthorized = 2
    /\ fetch.retries = 1
    /\ hasDownloadFactory

(***************************************************************************)
(* C11: with two requests served at once, each validated before the other  *)
(* is saved or after, no stored distribution has a base path that overlaps *)
(* another's.                                                              *)
(***************************************************************************)
ConcurrentRequestsNeverOverlap ==
    \A d \in distributions :
        \A path \in {e.base_path : e \in distributions \ {d}} :
            ~Overlaps(d.base_path, path)

====
